---------------------------- MODULE Spec2Model ----------------------------
(***************************************************************************)
(* A model of darc_toolbox: the DARC design generator (darc/designs.py)    *)
(* and the model base class (bad/model.py).                                *)
(*                                                                         *)
(* Numbers.  Probabilities are fixed-point permille (1000 stands for 1.0), *)
(* log-densities are fixed-point milli-nats.  A pandas table is a sequence *)
(* of rows; every row carries its index label `idx`, because pandas aligns *)
(* on labels and drops by label.                                           *)
(*                                                                         *)
(* Four specifications share the variables:                                *)
(*   GenSpec   construction of a DARCDesignGenerator from drawn inputs     *)
(*   PredSpec  remove_highly_predictable_designs on drawn tables           *)
(*   LikSpec   log_likelihood / log_prior_pdf / p_log_pdf on drawn inputs  *)
(*   Spec      the trial loop around get_next_design and update_beliefs    *)
(***************************************************************************)
EXTENDS Integers, Sequences, FiniteSets, TLC

VARIABLES
    args,                     \* the arguments DARCDesignGenerator is built from
    all_possible_designs,     \* self.all_possible_designs
    max_trials,               \* self.max_trials
    NO_REPEATS,               \* self.NO_REPEATS
    random_choice_dimension,  \* self.random_choice_dimension
    theta,                    \* model.θ, the particle population
    data,                     \* the trial history (self.data.df)
    pc,                       \* where the run stands
    response,                 \* the response the collaborator supplied
    call,                     \* what the last call did and returned
    stages,                   \* the working set after each pipeline stage
    out,                      \* the value a pure function returned
    issued                    \* how many designs get_next_design has returned

vars == <<args, all_possible_designs, max_trials, NO_REPEATS,
          random_choice_dimension, theta, data, pc, response, call, stages, out,
          issued>>

----------------------------------------------------------------------------
(* Bounds of the model *)

MaxTrials == 3
MaxParticles == 2
MaxFill == 10
MaxLikTrials == 2

(* Program constants *)

\* threshold = 0.01 (permille)
threshold == 10
\* if n_not_predictable > 10
MinNotPredictable == 10
\* allowable_designs[:10]
NClosest == 10

UNIT == 10 * 100

----------------------------------------------------------------------------
(* Generic helpers *)

RECURSIVE SumSeq(_)
SumSeq(s) == IF s = <<>> THEN 0 ELSE Head(s) + SumSeq(Tail(s))

RECURSIVE ProdSeq(_)
ProdSeq(s) == IF s = <<>> THEN 1 ELSE Head(s) * ProdSeq(Tail(s))

Range(s) == {s[i] : i \in DOMAIN s}

Abs(x) == IF x < 0 THEN -x ELSE x

\* the rows of table D whose label is not in `labels` (DataFrame.drop)
DropLabels(D, labels) == SelectSeq(D, LAMBDA r : r.idx \notin labels)

\* a Python object handed in where a list is expected
PyList(v) == [islist |-> TRUE, vals |-> v]
NotAList == [islist |-> FALSE, vals |-> <<>>]

DesignColumns == {"RA", "DA", "PA", "RB", "DB", "PB"}

\* the design a row holds, without its label and without annotations
DesignOf(r) == [c \in DesignColumns |-> r[c]]

None == "None"

----------------------------------------------------------------------------
(* DARCDesignGenerator: validation *)

\* `x is False` for an argument x
IsFalseObject(x) == FALSE

\* `not x` for a list x
PyNot(x) == x.vals = <<>>

_input_type_validation(a) ==
    IF ~a.RA.islist \/ ~a.DA.islist \/ ~a.PA.islist \/ ~a.RB.islist
       \/ ~a.DB.islist \/ ~a.PB.islist \/ ~a.RA_over_RB.islist
    THEN "AssertionError"
    ELSE IF PyNot(a.RA) /\ ~(~IsFalseObject(a.RA_over_RB))
    THEN "AssertionError"
    ELSE IF PyNot(a.RA_over_RB) /\ ~(~IsFalseObject(a.RA))
    THEN "AssertionError"
    ELSE "ok"

AnyOutsideUnit(l) == \E i \in DOMAIN l.vals : l.vals[i] < 0 \/ l.vals[i] > UNIT
AnyNegative(l) == \E i \in DOMAIN l.vals : l.vals[i] < 0

\* mutant: PB is compared against the lower end only
input_value_validation_PBlow(a) ==
    IF AnyOutsideUnit(a.PA) THEN "ValueError"
    ELSE IF AnyNegative(a.PB) THEN "ValueError"
    ELSE IF AnyNegative(a.DA) THEN "ValueError"
    ELSE IF AnyNegative(a.DB) THEN "ValueError"
    ELSE IF AnyOutsideUnit(a.RA_over_RB) THEN "ValueError"
    ELSE "ok"

_input_value_validation(a) ==
    IF AnyOutsideUnit(a.PA) THEN "ValueError"
    ELSE IF AnyOutsideUnit(a.PB) THEN "ValueError"
    ELSE IF AnyNegative(a.DA) THEN "ValueError"
    ELSE IF AnyNegative(a.DB) THEN "ValueError"
    ELSE IF AnyOutsideUnit(a.RA_over_RB) THEN "ValueError"
    ELSE "ok"

----------------------------------------------------------------------------
(* DARCDesignGenerator: generation of the design space *)

\* list(itertools.product(*lists)): the first list varies slowest
itertools_product(lists) ==
    LET n(c) == Len(lists[c])
        K == Len(lists)
        N == ProdSeq([c \in 1..K |-> n(c)])
        stride(c) == ProdSeq([j \in 1..(K - c) |-> n(c + j)])
        pos(k, c) == ((k \div stride(c)) % n(c)) + 1
    IN  [k \in 1..N |-> [c \in 1..K |-> lists[c][pos(k - 1, c)]]]

\* pd.DataFrame(all_combinations, columns=['RA','DA','PA','RB','DB','PB'])
FrameRA(combos) ==
    [k \in 1..Len(combos) |->
        [idx |-> k - 1, RA |-> combos[k][1], DA |-> combos[k][2],
         PA |-> combos[k][3], RB |-> combos[k][4], DB |-> combos[k][5],
         PB |-> combos[k][6]]]

\* columns ['RA_over_RB','DA','PA','RB','DB','PB'], then
\* D['RA'] = D['RB'] * D['RA_over_RB'] and the ratio column is dropped
FrameRatio(combos) ==
    [k \in 1..Len(combos) |->
        [idx |-> k - 1, RA |-> (combos[k][4] * combos[k][1]) \div UNIT,
         DA |-> combos[k][2], PA |-> combos[k][3], RB |-> combos[k][4],
         DB |-> combos[k][5], PB |-> combos[k][6]]]

\* mutant: rows with equal delays are dropped too
DropDelayOrderStrict(D) ==
    DropLabels(D, {D[i].idx : i \in {j \in DOMAIN D : D[j].DA >= D[j].DB}})

\* D.drop(D[D.DA > D.DB].index, inplace=True)
DropDelayOrder(D) ==
    DropLabels(D, {D[i].idx : i \in {j \in DOMAIN D : D[j].DA > D[j].DB}})

\* D.drop(D[D.RB < D.RA].index, inplace=True)
DropRewardOrder(D) ==
    DropLabels(D, {D[i].idx : i \in {j \in DOMAIN D : D[j].RB < D[j].RA}})

\* the table the branches of generate_all_possible_designs build; "unbound"
\* when neither branch assigns D
BuildFrame(a) ==
    IF PyNot(a.RA_over_RB)
    THEN [bound |-> TRUE,
          D |-> FrameRA(itertools_product(
                  <<a.RA.vals, a.DA.vals, a.PA.vals, a.RB.vals, a.DB.vals, a.PB.vals>>))]
    ELSE IF PyNot(a.RA)
    THEN [bound |-> TRUE,
          D |-> FrameRatio(itertools_product(
                  <<a.RA_over_RB.vals, a.DA.vals, a.PA.vals, a.RB.vals, a.DB.vals,
                    a.PB.vals>>))]
    ELSE [bound |-> FALSE, D |-> <<>>]

\* generate_all_possible_designs: the error it ends with ("ok" for none) and
\* the table it stores in self.all_possible_designs
generate_all_possible_designs(a, assume_discounting) ==
    LET f == BuildFrame(a)
    IN  IF ~f.bound
        THEN [error |-> "UnboundLocalError", D |-> <<>>]
        ELSE LET D1 == DropDelayOrder(f.D)
                 D2 == IF assume_discounting THEN DropRewardOrder(D1) ELSE D1
             IN  [error |-> "ok", D |-> D2]

Unset == "unset"

\* DARCDesignGenerator.__init__: the exception it ends with ("ok" for none),
\* the step that raised it, and the fields it has set by then
DARCDesignGenerator_init(a) ==
    LET t == _input_type_validation(a)
        v == _input_value_validation(a)
        g == generate_all_possible_designs(a, TRUE)
    IN  IF t # "ok"
        THEN [error |-> t, raised_in |-> "validation", generated |-> FALSE, D |-> <<>>]
        ELSE IF v # "ok"
        THEN [error |-> v, raised_in |-> "validation", generated |-> FALSE, D |-> <<>>]
        ELSE IF g.error # "ok"
        THEN [error |-> g.error, raised_in |-> "generate", generated |-> FALSE, D |-> <<>>]
        ELSE [error |-> "ok", raised_in |-> "", generated |-> TRUE, D |-> g.D]

----------------------------------------------------------------------------
(* GenSpec: construction from drawn arguments *)

GenRA == {NotAList, PyList(<<>>), PyList(<<50, 150>>)}
GenDA == {NotAList, PyList(<<0>>), PyList(<<0, 2>>), PyList(<<-1>>)}
GenPA == {NotAList, PyList(<<1000>>), PyList(<<1500>>), PyList(<<-500, 1000>>)}
GenRB == {NotAList, PyList(<<100>>), PyList(<<-100, 100>>)}
GenDB == {NotAList, PyList(<<1>>), PyList(<<0, 1>>), PyList(<<1, -1>>)}
GenPB == {NotAList, PyList(<<1000>>), PyList(<<500, 1000>>), PyList(<<1001>>)}
GenRatio == {NotAList, PyList(<<>>), PyList(<<500>>), PyList(<<0, 1000>>),
             PyList(<<1500>>)}

GenArgs ==
    [RA : GenRA, DA : GenDA, PA : GenPA, RB : GenRB, DB : GenDB, PB : GenPB,
     RA_over_RB : GenRatio]

NoCall == [op |-> "none", error |-> "ok", raised_in |-> "", generated |-> FALSE,
           assume_discounting |-> TRUE]

GenInit ==
    /\ args \in GenArgs
    /\ all_possible_designs = <<>>
    /\ max_trials = 0
    /\ NO_REPEATS = FALSE
    /\ random_choice_dimension = None
    /\ theta = <<>>
    /\ data = <<>>
    /\ pc = "new"
    /\ response = None
    /\ call = NoCall
    /\ stages = <<>>
    /\ out = None
    /\ issued = 0

\* DARCDesignGenerator(RA=..., DA=..., ...)
Construct ==
    /\ pc = "new"
    /\ LET r == DARCDesignGenerator_init(args)
       IN  /\ pc' = IF r.error = "ok" THEN "constructed" ELSE "construct_failed"
           /\ all_possible_designs' = r.D
           /\ call' = [op |-> "__init__", error |-> r.error, raised_in |-> r.raised_in,
                       generated |-> r.generated, assume_discounting |-> TRUE]
    /\ UNCHANGED <<args, max_trials, NO_REPEATS, random_choice_dimension, theta,
                   data, response, stages, out, issued>>

\* generator.generate_all_possible_designs(assume_discounting=flag)
Regenerate ==
    /\ pc = "constructed"
    /\ \E flag \in BOOLEAN :
         LET g == generate_all_possible_designs(args, flag)
         IN  /\ g.error = "ok"
             /\ all_possible_designs' = g.D
             /\ call' = [op |-> "generate_all_possible_designs", error |-> "ok",
                         raised_in |-> "", generated |-> TRUE,
                         assume_discounting |-> flag]
    /\ UNCHANGED <<args, max_trials, NO_REPEATS, random_choice_dimension, theta,
                   data, pc, response, stages, out, issued>>

GenNext == Construct \/ Regenerate

GenSpec == GenInit /\ [][GenNext]_vars

----------------------------------------------------------------------------
(* Claims about construction (GenSpec) *)

Supplied(l) == l.islist /\ l.vals # <<>>

BothOrNeither(a) == Supplied(a.RA) <=> Supplied(a.RA_over_RB)

AllLists(a) ==
    /\ a.RA.islist /\ a.DA.islist /\ a.PA.islist /\ a.RB.islist
    /\ a.DB.islist /\ a.PB.islist /\ a.RA_over_RB.islist

\* C6 as stated: constructing with both the RA list and the RA_over_RB list
\* non-empty, or with both empty, fails with a validation error before any
\* design is generated; construction succeeds only with exactly one of them.
C6_Original ==
    call.op = "__init__" =>
        /\ (AllLists(args) /\ BothOrNeither(args)) =>
               (call.error # "ok" /\ call.raised_in = "validation")
        /\ call.error = "ok" => ~BothOrNeither(args)

\* the inputs C7 calls invalid
InvalidInput(a) ==
    \/ ~AllLists(a)
    \/ \E i \in DOMAIN a.PA.vals : a.PA.vals[i] < 0 \/ a.PA.vals[i] > UNIT
    \/ \E i \in DOMAIN a.PB.vals : a.PB.vals[i] < 0 \/ a.PB.vals[i] > UNIT
    \/ \E i \in DOMAIN a.DA.vals : a.DA.vals[i] < 0
    \/ \E i \in DOMAIN a.DB.vals : a.DB.vals[i] < 0
    \/ \E i \in DOMAIN a.RA_over_RB.vals :
           a.RA_over_RB.vals[i] < 0 \/ a.RA_over_RB.vals[i] > UNIT

ClaimedDesignSpace(a, assume_discounting) ==
    LET rewards ==
            IF a.RA_over_RB.vals = <<>>
            THEN {<<ra, rb>> : ra \in Range(a.RA.vals), rb \in Range(a.RB.vals)}
            ELSE {<<(rb * q) \div UNIT, rb>> :
                      q \in Range(a.RA_over_RB.vals), rb \in Range(a.RB.vals)}
        all == {[RA |-> rw[1], RB |-> rw[2], DA |-> da, DB |-> db,
                 PA |-> pa, PB |-> pb] :
                    rw \in rewards, da \in Range(a.DA.vals),
                    db \in Range(a.DB.vals), pa \in Range(a.PA.vals),
                    pb \in Range(a.PB.vals)}
    IN  {d \in all : d.DA <= d.DB /\ (assume_discounting => d.RB >= d.RA)}

\* C8: the generated design space is exactly the set of combinations of the
\* Cartesian product (RA = RB * RA_over_RB in the ratio parameterization)
\* with DA <= DB and, when assume_discounting is enabled, RB >= RA; enabling
\* assume_discounting never increases the candidate count.
C8_DesignSpaceIsFilteredProduct ==
    call.generated =>
        /\ {DesignOf(r) : r \in Range(all_possible_designs)}
               = ClaimedDesignSpace(args, call.assume_discounting)
        /\ Len(generate_all_possible_designs(args, TRUE).D)
               <= Len(generate_all_possible_designs(args, FALSE).D)

C8_Witness ==
    /\ call.op = "generate_all_possible_designs"
    /\ ~call.assume_discounting
    /\ ~PyNot(args.RA_over_RB)
    /\ all_possible_designs # <<>>
    /\ \E r \in Range(all_possible_designs) : r.RB < r.RA
    /\ Len(all_possible_designs) < Len(BuildFrame(args).D)

----------------------------------------------------------------------------
(* Model (bad/model.py) with one concrete model plugged in *)

\* prior = {'logk': norm(loc=log(1/365), scale=2)}; a particle holds logk as
\* its offset from loc, on a grid of even integers
prior_names == {"logk"}

\* θ_fixed = {'ϵ': 0.01}: never a column of θ
theta_fixed_names == {"eps"}

GridValues == {0, 2}

\* prior[key].logpdf(x) for norm(loc, 2) at offset x from loc, in milli-nats:
\* -ln(2 sqrt(2 pi)) - x^2 / 8
logpdf(key, x) == -1612 - 125 * x * x

\* np.log on the probabilities the choice function yields, in milli-nats
np_log(p) ==
    CASE p = 5 -> -5298
      [] p = 250 -> -1386
      [] p = 500 -> -693
      [] p = 750 -> -288
      [] p = 995 -> -5

\* k = exp(logk) on the grid: increasing, exp(0) = 1
Exp(v) == v + 1

\* calc_decision_variable: VB - VA with V = R / (1 + k * delay), multiplied
\* by the positive denominators (1 + k * DA)(1 + k * DB)
calc_decision_variable(particle, d) ==
    LET k == Exp(particle.logk)
    IN  d.RB * (1 + k * d.DA) - d.RA * (1 + k * d.DB)

\* the choice function: the probability of choosing B, rising with the
\* decision variable and bounded away from 0 and 1
choice_function(dv) ==
    IF dv <= -100 THEN 5
    ELSE IF dv < 0 THEN 250
    ELSE IF dv = 0 THEN 500
    ELSE IF dv < 100 THEN 750
    ELSE 995

\* predictive_y(θ, data): row-wise, a one-row operand is broadcast
predictive_y(th, D) ==
    LET p(i, j) == choice_function(calc_decision_variable(th[i], D[j]))
    IN  IF Len(th) = 1 THEN [j \in 1..Len(D) |-> p(1, j)]
        ELSE IF Len(D) = 1 THEN [i \in 1..Len(th) |-> p(i, 1)]
        ELSE [i \in 1..Len(th) |-> p(i, i)]

\* a recorded response: its value and the Python object that holds it
PyInt(v) == [val |-> v, kind |-> "int"]

\* `x is 1`, `x is 0`: identity with the int literal, which only an int
\* object of that value has
IsLiteral(x, v) == x.kind = "int" /\ x.val = v

\* log_likelihood(θ, data): the exception it ends with ("ok" for none) and
\* the vector ll
log_likelihood(th, D) ==
    LET n_trials == Len(D)
        n_particles == Len(th)
        bad == {t \in 1..n_trials : ~IsLiteral(D[t].R, 1) /\ ~IsLiteral(D[t].R, 0)}
        \* p_chose_B[:, trial]
        column(t) ==
            IF IsLiteral(D[t].R, 1)
            THEN predictive_y(th, <<D[t]>>)
            ELSE [i \in 1..n_particles |-> UNIT - predictive_y(th, <<D[t]>>)[i]]
    IN  IF bad # {}
        THEN [error |-> "ValueError", v |-> <<>>]
        ELSE [error |-> "ok",
              v |-> [i \in 1..n_particles |->
                       SumSeq([t \in 1..n_trials |-> np_log(column(t)[i])])]]

RECURSIVE SumColumns(_, _)
SumColumns(row, cols) ==
    IF cols = {} THEN 0
    ELSE LET c == CHOOSE x \in cols : TRUE
         IN  row[c] + SumColumns(row, cols \ {c})

\* mutant: log_prior is θ itself, not a copy, and the log-densities are
\* written into θ
log_prior_pdf_in_place(th) ==
    LET log_prior ==
            [i \in 1..Len(th) |->
                [c \in DOMAIN th[i] |->
                    IF c \in prior_names THEN logpdf(c, th[i][c]) ELSE th[i][c]]]
    IN  [error |-> "ok",
         v |-> [i \in 1..Len(th) |-> SumColumns(log_prior[i], DOMAIN log_prior[i])],
         theta |-> log_prior]

\* log_prior_pdf(θ): the vector it returns and the θ it leaves behind (the
\* log-densities are written into copy.copy(θ))
log_prior_pdf(th) ==
    LET log_prior ==
            [i \in 1..Len(th) |->
                [c \in DOMAIN th[i] |->
                    IF c \in prior_names THEN logpdf(c, th[i][c]) ELSE th[i][c]]]
    IN  [error |-> "ok",
         v |-> [i \in 1..Len(th) |-> SumColumns(log_prior[i], DOMAIN log_prior[i])],
         theta |-> th]

\* mutant: the prior is left out
p_log_pdf_no_prior(th, D) == [error |-> log_likelihood(th, D).error,
                              v |-> log_likelihood(th, D).v,
                              theta |-> th]

\* p_log_pdf(θ, data) = log_likelihood(θ, data) + log_prior_pdf(θ): the left
\* operand is evaluated first, log_prior_pdf only if it returns
p_log_pdf(th, D) ==
    LET ll == log_likelihood(th, D)
        lp == log_prior_pdf(th)
    IN  IF ll.error # "ok" THEN [error |-> ll.error, v |-> <<>>, theta |-> th]
        ELSE [error |-> "ok", v |-> [i \in 1..Len(th) |-> ll.v[i] + lp.v[i]],
              theta |-> lp.theta]

\* the k-th smallest entry of a sequence of numbers
KthSmallest(s, k) ==
    CHOOSE x \in Range(s) :
        /\ Cardinality({i \in DOMAIN s : s[i] < x}) < k
        /\ Cardinality({i \in DOMAIN s : s[i] <= x}) >= k

\* Series.median()
Median(s) ==
    LET n == Len(s)
    IN  IF n % 2 = 1 THEN KthSmallest(s, (n + 1) \div 2)
        ELSE (KthSmallest(s, n \div 2) + KthSmallest(s, n \div 2 + 1)) \div 2

\* get_θ_point_estimate(): the one-row table of column medians
get_theta_point_estimate(th) ==
    <<[c \in prior_names |-> Median([i \in 1..Len(th) |-> th[i][c]])]>>

\* get_θ_summary_stats(param_name): the median and the mean of the column
\* (the quantiles are order statistics of the same column)
get_theta_summary_stats(th, param_name) ==
    LET col == [i \in 1..Len(th) |-> th[i][param_name]]
    IN  [median |-> Median(col),
         mean |-> SumSeq(col) \div Len(col),
         lower |-> KthSmallest(col, 1),
         upper |-> KthSmallest(col, Len(col))]

\* get_θ_entropy(param_name): the entropy of the normal fitted to the
\* samples, 0.5 ln(2 pi e s^2); it is given here by n^2 s^2, the quantity
\* norm.fit takes from the samples
get_theta_entropy(th, param_name) ==
    LET col == [i \in 1..Len(th) |-> th[i][param_name]]
    IN  Len(col) * SumSeq([i \in 1..Len(col) |-> col[i] * col[i]])
            - SumSeq(col) * SumSeq(col)

\* _sample_from_prior(): the populations sampling n_particles rows can give
sample_from_prior(n_particles) ==
    [1..n_particles -> [prior_names -> GridValues]]

\* the populations of Len(th) rows drawn from the rows of th; the order of the
\* rows of a resampled population carries nothing, one order stands for all
Resamples(th) ==
    {q \in [1..Len(th) -> Range(th)] :
        \A i \in 1..(Len(th) - 1) : q[i].logk <= q[i + 1].logk}

\* bad.inference.update_beliefs(p_log_pdf, θ, data): it evaluates the
\* log-posterior of the particles and returns a population of as many rows,
\* resampled from them
inference_update_beliefs(th, D) ==
    IF p_log_pdf(th, D).error # "ok"
    THEN [error |-> p_log_pdf(th, D).error, populations |-> {}]
    ELSE [error |-> "ok", populations |-> Resamples(th)]

\* mutant: the population update_beliefs returns is stored without its
\* repeated rows
Model_update_beliefs_distinct(th, D) ==
    LET r == inference_update_beliefs(th, D)
        keep(q) == {i \in DOMAIN q : \A j \in 1..(i - 1) : q[j] # q[i]}
        distinct(q) ==
            [k \in 1..Cardinality(keep(q)) |->
                q[CHOOSE i \in keep(q) :
                      Cardinality({j \in keep(q) : j < i}) = k - 1]]
    IN  IF r.error # "ok"
        THEN [error |-> r.error, populations |-> {th}]
        ELSE [error |-> "ok", populations |-> {distinct(q) : q \in r.populations}]

\* Model.update_beliefs(data): self.θ is assigned only when the call returns
Model_update_beliefs(th, D) ==
    LET r == inference_update_beliefs(th, D)
    IN  IF r.error # "ok"
        THEN [error |-> r.error, populations |-> {th}]
        ELSE [error |-> "ok", populations |-> r.populations]

----------------------------------------------------------------------------
(* LikSpec: the log-density functions on drawn populations and histories *)

LikDesigns ==
    {[RA |-> 50, DA |-> 0, PA |-> UNIT, RB |-> 100, DB |-> 0, PB |-> UNIT],
     [RA |-> 100, DA |-> 0, PA |-> UNIT, RB |-> 100, DB |-> 1, PB |-> UNIT]}

\* responses as a table can hold them: Python ints, numpy integers (an
\* integer column), a float
LikResponses ==
    {PyInt(0), PyInt(1), PyInt(2),
     [val |-> 0, kind |-> "int64"], [val |-> 1, kind |-> "int64"],
     [val |-> 1, kind |-> "float"]}

TrialRow(i, d, r) ==
    [idx |-> i, RA |-> d.RA, DA |-> d.DA, PA |-> d.PA, RB |-> d.RB, DB |-> d.DB,
     PB |-> d.PB, R |-> r]

LikHistories ==
    UNION {{[t \in 1..n |-> TrialRow(t - 1, ds[t], rs[t])] :
               ds \in [1..n -> LikDesigns], rs \in [1..n -> LikResponses]} :
           n \in 0..MaxLikTrials}

LikInit ==
    /\ args = None
    /\ all_possible_designs = <<>>
    /\ max_trials = 0
    /\ NO_REPEATS = FALSE
    /\ random_choice_dimension = None
    /\ theta \in UNION {sample_from_prior(n) : n \in 1..MaxParticles}
    /\ data \in LikHistories
    /\ pc = "new"
    /\ response = None
    /\ call = NoCall
    /\ stages = <<>>
    /\ out = None
    /\ issued = 0

LikUnchanged ==
    UNCHANGED <<args, all_possible_designs, max_trials, NO_REPEATS,
                random_choice_dimension, data, response, stages, issued>>

\* model.log_likelihood(model.θ, data)
EvalLogLikelihood ==
    /\ pc' = "done"
    /\ out' = log_likelihood(theta, data)
    /\ call' = [NoCall EXCEPT !.op = "log_likelihood", !.error = out'.error]
    /\ theta' = theta
    /\ LikUnchanged

\* model.log_prior_pdf(model.θ)
EvalLogPrior ==
    /\ pc' = "done"
    /\ out' = [error |-> "ok", v |-> log_prior_pdf(theta).v]
    /\ call' = [NoCall EXCEPT !.op = "log_prior_pdf"]
    /\ theta' = log_prior_pdf(theta).theta
    /\ LikUnchanged

\* model.p_log_pdf(model.θ, data)
EvalPLogPdf ==
    /\ pc' = "done"
    /\ out' = [error |-> p_log_pdf(theta, data).error, v |-> p_log_pdf(theta, data).v]
    /\ call' = [NoCall EXCEPT !.op = "p_log_pdf", !.error = out'.error]
    /\ theta' = p_log_pdf(theta, data).theta
    /\ LikUnchanged

\* model.get_θ_point_estimate()
EvalPointEstimate ==
    /\ pc' = "done"
    /\ out' = [error |-> "ok", v |-> get_theta_point_estimate(theta)]
    /\ call' = [NoCall EXCEPT !.op = "get_theta_point_estimate"]
    /\ theta' = theta
    /\ LikUnchanged

\* model.get_θ_summary_stats(param_name)
EvalSummaryStats ==
    /\ pc' = "done"
    /\ \E name \in prior_names :
           out' = [error |-> "ok", v |-> get_theta_summary_stats(theta, name)]
    /\ call' = [NoCall EXCEPT !.op = "get_theta_summary_stats"]
    /\ theta' = theta
    /\ LikUnchanged

\* model.get_θ_entropy(param_name)
EvalEntropy ==
    /\ pc' = "done"
    /\ \E name \in prior_names :
           out' = [error |-> "ok", v |-> get_theta_entropy(theta, name)]
    /\ call' = [NoCall EXCEPT !.op = "get_theta_entropy"]
    /\ theta' = theta
    /\ LikUnchanged

\* model.update_beliefs(data)
LikUpdate ==
    /\ pc' = "done"
    /\ theta' \in Model_update_beliefs(theta, data).populations
    /\ out' = None
    /\ call' = [NoCall EXCEPT !.op = "update_beliefs",
                               !.error = Model_update_beliefs(theta, data).error]
    /\ LikUnchanged

LikNext ==
    \/ EvalLogLikelihood \/ EvalLogPrior \/ EvalPLogPdf
    \/ EvalPointEstimate \/ EvalSummaryStats \/ EvalEntropy
    \/ LikUpdate

LikSpec == LikInit /\ [][LikNext]_vars

----------------------------------------------------------------------------
(* Claims about the log-densities (LikSpec) *)

\* what C4 says a trial contributes for particle i
ClaimedContribution(th, row, i) ==
    IF row.R.val = 1
    THEN np_log(predictive_y(<<th[i]>>, <<row>>)[1])
    ELSE np_log(UNIT - predictive_y(<<th[i]>>, <<row>>)[1])

ClaimedLogLikelihood(th, D) ==
    [i \in 1..Len(th) |->
        SumSeq([t \in 1..Len(D) |-> ClaimedContribution(th, D[t], i)])]

AllBinary(D) == \A t \in DOMAIN D : D[t].R.val \in {0, 1}

\* C4 as stated: for every trial history whose recorded responses are all 0
\* or 1, log_likelihood signals no error and returns, per particle, the sum
\* over trials of log(p) (response 1) or log(1-p) (response 0); the error is
\* signalled only when some response is neither 0 nor 1.
C4_Original ==
    call.op = "log_likelihood" =>
        /\ AllBinary(data) =>
               (out.error = "ok" /\ out.v = ClaimedLogLikelihood(theta, data))
        /\ out.error # "ok" => ~AllBinary(data)

\* C5: p_log_pdf(θ, data) equals log_likelihood(θ, data) + log_prior_pdf(θ)
\* per particle (and fails exactly when log_likelihood does); for the empty
\* history log_likelihood is the all-zeros vector of length P, without error,
\* so the log-posterior equals the log-prior.
C5_PosteriorIsLikelihoodPlusPrior ==
    /\ call.op = "p_log_pdf" =>
           /\ out.error = log_likelihood(theta, data).error
           /\ out.error = "ok" =>
                  /\ Len(out.v) = Len(theta)
                  /\ \A i \in 1..Len(theta) :
                         out.v[i] = log_likelihood(theta, data).v[i]
                                      + log_prior_pdf(theta).v[i]
           /\ data = <<>> =>
                  (out.error = "ok" /\ out.v = log_prior_pdf(theta).v)
    /\ (call.op = "log_likelihood" /\ data = <<>>) =>
           (out.error = "ok" /\ out.v = [i \in 1..Len(theta) |-> 0])

C5_Witness ==
    /\ call.op = "p_log_pdf"
    /\ out.error = "ok"
    /\ Len(data) = MaxLikTrials
    /\ Len(theta) > 1
    /\ out.v[1] # out.v[2]
    /\ \E t \in DOMAIN data : data[t].R.val = 0
    /\ \E t \in DOMAIN data : data[t].R.val = 1

\* C14: after construction and after any sequence of update_beliefs calls
\* and summary queries the particle population has the rows it was created
\* with (no step resizes it) and its columns are the model's prior parameter
\* names, the fixed parameters never among them.
C14_PopulationShape ==
    /\ [](\A i \in DOMAIN theta :
             /\ DOMAIN theta[i] = prior_names
             /\ DOMAIN theta[i] \cap theta_fixed_names = {})
    /\ [][Len(theta') = Len(theta)]_vars

C14_Witness ==
    /\ call.op = "update_beliefs"
    /\ call.error = "ok"
    /\ data # <<>>
    /\ Len(theta) = MaxParticles
    /\ \A i \in DOMAIN theta : theta[i] = theta[1]

\* the queries C15 names
ReadOnlyQueries ==
    {"get_theta_point_estimate", "get_theta_summary_stats", "get_theta_entropy",
     "log_prior_pdf", "p_log_pdf"}

\* C15: get_θ_point_estimate, get_θ_summary_stats, get_θ_entropy,
\* log_prior_pdf and p_log_pdf leave the model's particle population
\* unchanged, and log_prior_pdf leaves the θ table passed to it unchanged: the
\* log-densities go into a copy.
C15_QueriesReadOnly ==
    [][call'.op \in ReadOnlyQueries =>
           /\ theta' = theta
           /\ log_prior_pdf(theta).theta = theta]_vars

C15_Witness ==
    /\ call.op = "log_prior_pdf"
    /\ Len(theta) = MaxParticles
    /\ theta[1] # theta[MaxParticles]
    /\ out.v[1] # out.v[MaxParticles]
    /\ \A i \in DOMAIN theta : out.v[i] # theta[i].logk

----------------------------------------------------------------------------
(* The filter pipeline (darc/designs.py) *)

\* the number of rows of D that hold the same design as row r
Occurrences(D, r) == Cardinality({j \in DOMAIN D : DesignOf(D[j]) = DesignOf(r)})

\* remove_trials_already_run(design_set, exclude_these):
\* pd.concat([design_set, exclude_these]).drop_duplicates(keep=False)
remove_trials_already_run(design_set, exclude_these) ==
    LET both == design_set \o exclude_these
    IN  SelectSeq(both, LAMBDA r : Occurrences(both, r) = 1)

\* self.data.df.drop(columns=['R'])
DropR(D) ==
    [t \in 1..Len(D) |->
        [idx |-> D[t].idx, RA |-> D[t].RA, DA |-> D[t].DA, PA |-> D[t].PA,
         RB |-> D[t].RB, DB |-> D[t].DB, PB |-> D[t].PB]]

\* allowable_designs[design_dim_name].unique()
unique_values(D, dim) == {D[i][dim] : i \in DOMAIN D}

\* mutant: the rows at or above the chosen value are kept
choose_one_at_least(D, dim, chosen) ==
    SelectSeq(D, LAMBDA r : r[dim] >= chosen)

\* choose_one_along_design_dimension with random.choice returning `chosen`
choose_one_along_design_dimension(D, dim, chosen) ==
    SelectSeq(D, LAMBDA r : r[dim] = chosen)

\* a cell of a float column: a number, or NaN
Num(x) == [nan |-> FALSE, v |-> x]
NaN == [nan |-> TRUE, v |-> 0]

\* comparisons with NaN are false
Lt(c, x) == ~c.nan /\ c.v < x
Gt(c, x) == ~c.nan /\ c.v > x

\* allowable_designs['p_chose_B'] = pd.Series(p_chose_B): the Series has the
\* labels 0..n-1 and the assignment aligns it on the table's labels; a label
\* the Series lacks gets NaN
AssignAligned(D, p) ==
    [i \in 1..Len(D) |->
        IF D[i].idx + 1 \in DOMAIN p THEN Num(p[D[i].idx + 1]) ELSE NaN]

\* mutant: the values are assigned by position
AssignByPosition(D, p) == [i \in 1..Len(D) |-> Num(p[i])]

\* DataFrame.size: rows times columns, the design columns plus p_chose_B and
\* highly_predictable
FrameSize(D) == Len(D) * (Cardinality(DesignColumns) + 2)

\* sort_values(by=['badness']): ascending, NaN last; rows of equal badness
\* are kept in their order here (pandas leaves their order open)
SortByBadness(D, badness) ==
    LET before(i, j) ==
            \/ ~badness[i].nan /\ badness[j].nan
            \/ ~badness[i].nan /\ ~badness[j].nan /\ badness[i].v < badness[j].v
            \/ badness[i].nan = badness[j].nan
               /\ (badness[i].nan \/ badness[i].v = badness[j].v) /\ i < j
        rank(i) == 1 + Cardinality({j \in DOMAIN D : before(j, i)})
    IN  [k \in 1..Len(D) |-> D[CHOOSE i \in DOMAIN D : rank(i) = k]]

\* D[:n]
Take(D, n) == SubSeq(D, 1, IF Len(D) < n THEN Len(D) ELSE n)

Annotate(D, col, hp) ==
    [i \in 1..Len(D) |->
        [idx |-> D[i].idx, RA |-> D[i].RA, DA |-> D[i].DA, PA |-> D[i].PA,
         RB |-> D[i].RB, DB |-> D[i].DB, PB |-> D[i].PB,
         p_chose_B |-> col[i], highly_predictable |-> hp[i]]]

\* remove_highly_predictable_designs(allowable_designs, model)
remove_highly_predictable_designs(D, th) ==
    LET point == get_theta_point_estimate(th)
        p_chose_B == predictive_y(point, D)
        col == AssignAligned(D, p_chose_B)
        hp == [i \in 1..Len(D) |-> Lt(col[i], threshold) \/ Gt(col[i], UNIT - threshold)]
        A == Annotate(D, col, hp)
        n_not_predictable ==
            FrameSize(D) - Cardinality({i \in DOMAIN D : hp[i]})
    IN  IF n_not_predictable > MinNotPredictable
        THEN LET A1 == DropLabels(A, {A[i].idx : i \in {j \in DOMAIN A :
                                          Lt(A[j].p_chose_B, threshold)}})
             IN  DropLabels(A1, {A1[i].idx : i \in {j \in DOMAIN A1 :
                                     Gt(A1[j].p_chose_B, UNIT - threshold)}})
        ELSE LET badness ==
                     [i \in 1..Len(A) |->
                         IF A[i].p_chose_B.nan THEN NaN
                         ELSE Num(Abs(UNIT \div 2 - A[i].p_chose_B.v))]
             IN  Take(SortByBadness(A, badness), NClosest)

----------------------------------------------------------------------------
(* PredSpec: the predictability stage on drawn tables *)

MaxPrefix == 2

\* designs whose choice probability at logk = 0 is 0.995, 0.75, 0.5, 0.25, 0.005
PredDesigns ==
    {[RA |-> 100, DA |-> 0, PA |-> UNIT, RB |-> 200, DB |-> 0, PB |-> UNIT],
     [RA |-> 150, DA |-> 0, PA |-> UNIT, RB |-> 200, DB |-> 0, PB |-> UNIT],
     [RA |-> 100, DA |-> 0, PA |-> UNIT, RB |-> 200, DB |-> 1, PB |-> UNIT],
     [RA |-> 125, DA |-> 0, PA |-> UNIT, RB |-> 200, DB |-> 1, PB |-> UNIT],
     [RA |-> 150, DA |-> 0, PA |-> UNIT, RB |-> 200, DB |-> 1, PB |-> UNIT]}

\* the designs the tables are filled up with: one that is not highly
\* predictable, one that is
FillDesigns ==
    {[RA |-> 150, DA |-> 0, PA |-> UNIT, RB |-> 200, DB |-> 0, PB |-> UNIT],
     [RA |-> 150, DA |-> 0, PA |-> UNIT, RB |-> 200, DB |-> 1, PB |-> UNIT]}

Row(label, d) ==
    [idx |-> label, RA |-> d.RA, DA |-> d.DA, PA |-> d.PA, RB |-> d.RB,
     DB |-> d.DB, PB |-> d.PB]

\* tables of fill + a few free rows, labelled from `first` on: 0 for a table
\* fresh from generation, more when rows before it were dropped
PredTables ==
    UNION {{[i \in 1..(n + fill) |->
                Row(first + i - 1, IF i <= n THEN ds[i] ELSE f)] :
               ds \in [1..n -> PredDesigns], f \in FillDesigns,
               fill \in 0..MaxFill, first \in {0, 1}} :
           n \in 0..MaxPrefix}

NoStages == [after_exclusion |-> <<>>, after_variety |-> <<>>,
             after_predictability |-> <<>>]

PredInit ==
    /\ args = None
    /\ all_possible_designs \in PredTables
    /\ max_trials = 0
    /\ NO_REPEATS = FALSE
    /\ random_choice_dimension = None
    /\ theta \in sample_from_prior(1)
    /\ data = <<>>
    /\ pc = "new"
    /\ response = None
    /\ call = NoCall
    /\ stages = NoStages
    /\ out = None
    /\ issued = 0

\* remove_highly_predictable_designs(allowable_designs, model)
ApplyPredictability ==
    /\ pc = "new"
    /\ pc' = "done"
    /\ stages' = [NoStages EXCEPT !.after_predictability =
                      remove_highly_predictable_designs(all_possible_designs, theta)]
    /\ call' = [NoCall EXCEPT !.op = "remove_highly_predictable_designs"]
    /\ UNCHANGED <<args, all_possible_designs, max_trials, NO_REPEATS,
                   random_choice_dimension, theta, data, response, out, issued>>

PredNext == ApplyPredictability

PredSpec == PredInit /\ [][PredNext]_vars

----------------------------------------------------------------------------
(* Claims about the predictability stage (PredSpec) *)

\* the probability of choosing B at the point estimate, for one design
PointProbability(th, r) == predictive_y(get_theta_point_estimate(th), <<r>>)[1]

ClaimedHighlyPredictable(th, r) ==
    PointProbability(th, r) < 10 \/ PointProbability(th, r) > 990

Distance(th, r) == Abs(500 - PointProbability(th, r))

Labels(D) == {D[i].idx : i \in DOMAIN D}

\* C10 as stated: a design is highly predictable iff its point-estimate
\* probability is < 0.01 or > 0.99.  If more than 10 rows are not highly
\* predictable the output is exactly those rows; otherwise it is the 10 rows
\* (all, if fewer than 10 exist) of the whole input closest to 0.5.
C10_Original ==
    call.op = "remove_highly_predictable_designs" =>
        LET D == all_possible_designs
            O == stages.after_predictability
            keep == {i \in DOMAIN D : ~ClaimedHighlyPredictable(theta, D[i])}
        IN  /\ \A i \in DOMAIN O :
                   O[i].highly_predictable = ClaimedHighlyPredictable(theta, O[i])
            /\ IF Cardinality(keep) > 10
               THEN Labels(O) = {D[i].idx : i \in keep}
               ELSE /\ Labels(O) \subseteq Labels(D)
                    /\ Len(O) = (IF Len(D) < 10 THEN Len(D) ELSE 10)
                    /\ \A i \in DOMAIN D : \A j \in DOMAIN O :
                           D[i].idx \notin Labels(O) =>
                               Distance(theta, D[i]) >= Distance(theta, O[j])

\* C11 as stated: the predictability stage never starves the optimiser: for
\* every input of n >= 1 designs, whatever their predicted probabilities (all
\* highly predictable included), the output holds at least min(10, n) designs.
C11_Original ==
    (call.op = "remove_highly_predictable_designs"
     /\ Len(all_possible_designs) >= 1) =>
        Len(stages.after_predictability) >=
            (IF Len(all_possible_designs) < 10 THEN Len(all_possible_designs) ELSE 10)

\* C12 as stated: a design whose point-estimate probability of choosing B is
\* exactly 0.5 is never removed by the predictability stage, whichever branch
\* is taken and whatever earlier stages removed from the set.
C12_Original ==
    call.op = "remove_highly_predictable_designs" =>
        \A i \in DOMAIN all_possible_designs :
            PointProbability(theta, all_possible_designs[i]) = UNIT \div 2 =>
                all_possible_designs[i].idx \in Labels(stages.after_predictability)

----------------------------------------------------------------------------
(* The trial loop: get_next_design, the response, update_beliefs *)

\* self.trial: the trial index, the length of the trial history
trial == Len(data)

\* if self.trial > self.max_trials - 1
BudgetReached(t, budget) == t > budget - 1

\* if self.NO_REPEATS and self.trial>1
ExclusionApplies(no_repeats, t) == no_repeats /\ t > 1

\* design_optimisation(allowable_designs, model.predictive_y, model.θ): the
\* rows it can return, none for an empty table
design_optimisation(allowable, th) == Range(allowable)

\* mutant: the working set is the table itself, not a copy; unless an
\* earlier stage builds a new table, the predictability stage writes its
\* columns into self.all_possible_designs
copy_by_reference(D) ==
    [working |-> D,
     original |->
        IF ExclusionApplies(NO_REPEATS, trial) \/ random_choice_dimension # None
        THEN D
        ELSE LET col == AssignAligned(
                            D, predictive_y(get_theta_point_estimate(theta), D))
             IN  Annotate(D, col,
                          [i \in 1..Len(D) |->
                              Lt(col[i], threshold) \/ Gt(col[i], UNIT - threshold)])]

\* copy.copy(self.all_possible_designs): DataFrame.__copy__ copies deeply, so
\* the result shares nothing with the table it was made from
copy_copy(D) == [working |-> D, original |-> D]

\* refine_design_space up to the variety stage: the working set after the
\* exclusion stage and the values random.choice can pick from
ExclusionStage(D, no_repeats, t, history) ==
    IF ExclusionApplies(no_repeats, t)
    THEN remove_trials_already_run(copy_copy(D).working, DropR(history))
    ELSE copy_copy(D).working

GetCall(t, refine, optimiser, result, design, error) ==
    [op |-> "get_next_design", trial |-> t, ran_refine |-> refine,
     ran_optimiser |-> optimiser, result |-> result, design |-> design,
     error |-> error]

\* get_next_design past the budget: return None
ReturnNone ==
    /\ BudgetReached(trial, max_trials)
    /\ call' = GetCall(trial, FALSE, FALSE, "None", None, "ok")
    /\ pc' = "Terminated"
    /\ UNCHANGED <<stages, issued, all_possible_designs>>

\* get_next_design within the budget: refine_design_space, then
\* design_optimisation and df_to_design_tuple
RefineAndOptimise ==
    /\ ~BudgetReached(trial, max_trials)
    /\ LET excl == ExclusionStage(all_possible_designs, NO_REPEATS, trial, data)
           values == unique_values(excl, random_choice_dimension)
       IN  /\ all_possible_designs' = copy_copy(all_possible_designs).original
           /\ IF random_choice_dimension # None /\ values = {}
              THEN \* random.choice of an empty sequence raises
                   /\ stages' = [NoStages EXCEPT !.after_exclusion = excl]
                   /\ call' = GetCall(trial, TRUE, FALSE, "error", None, "IndexError")
                   /\ pc' = "Failed"
                   /\ issued' = issued
              ELSE \E chosen \in (IF random_choice_dimension = None
                                  THEN {None} ELSE values) :
                     LET variety ==
                             IF random_choice_dimension = None THEN excl
                             ELSE choose_one_along_design_dimension(
                                      excl, random_choice_dimension, chosen)
                         allowable == remove_highly_predictable_designs(variety, theta)
                     IN  /\ stages' = [after_exclusion |-> excl,
                                       after_variety |-> variety,
                                       after_predictability |-> allowable]
                         /\ IF design_optimisation(allowable, theta) = {}
                            THEN \* no design: df_to_design_tuple raises
                                 /\ call' = GetCall(trial, TRUE, TRUE, "error", None,
                                                    "AttributeError")
                                 /\ pc' = "Failed"
                                 /\ issued' = issued
                            ELSE \E row \in design_optimisation(allowable, theta) :
                                   /\ call' = GetCall(trial, TRUE, TRUE, "design",
                                                      DesignOf(row), "ok")
                                   /\ pc' = "AwaitingResponse"
                                   /\ issued' = issued + 1

\* design = generator.get_next_design(model)
GetNextDesign ==
    /\ pc \in {"AwaitingDesign", "Terminated"}
    /\ (ReturnNone \/ RefineAndOptimise)
    /\ UNCHANGED <<args, max_trials, NO_REPEATS, random_choice_dimension, theta,
                   data, response, out>>

\* the labels a collaborator can answer with: the two valid ones and one
\* that is not
ResponseLabels == {0, 1, 2}

\* AwaitingResponse: the collaborator supplies a response
SupplyResponse ==
    /\ pc = "AwaitingResponse"
    /\ \E r \in ResponseLabels : response' = PyInt(r)
    /\ pc' = "Updating"
    /\ UNCHANGED <<args, all_possible_designs, max_trials, NO_REPEATS,
                   random_choice_dimension, theta, data, call, stages, out, issued>>

\* Updating: append (design, response) to the trial history, then
\* model.update_beliefs(history)
Update ==
    /\ pc = "Updating"
    /\ data' = Append(data, TrialRow(Len(data), call.design, response))
    /\ theta' \in Model_update_beliefs(theta, data').populations
    /\ call' = [op |-> "update_beliefs",
                error |-> Model_update_beliefs(theta, data').error]
    /\ pc' = IF call'.error = "ok" THEN "AwaitingDesign" ELSE "Failed"
    /\ UNCHANGED <<args, all_possible_designs, max_trials, NO_REPEATS,
                   random_choice_dimension, response, stages, out, issued>>

\* the generators the loop is run with
LoopArgs ==
    {[RA |-> PyList(<<50, 100>>), DA |-> PyList(<<0>>), PA |-> PyList(<<UNIT>>),
      RB |-> PyList(<<100>>), DB |-> PyList(<<0, 1>>), PB |-> PyList(<<UNIT>>),
      RA_over_RB |-> PyList(<<>>)],
     [RA |-> PyList(<<150, 50, 100>>), DA |-> PyList(<<0>>), PA |-> PyList(<<UNIT>>),
      RB |-> PyList(<<100>>), DB |-> PyList(<<1>>), PB |-> PyList(<<UNIT>>),
      RA_over_RB |-> PyList(<<>>)],
     [RA |-> PyList(<<1, 2>>), DA |-> PyList(<<0>>), PA |-> PyList(<<UNIT>>),
      RB |-> PyList(<<200>>), DB |-> PyList(<<0>>), PB |-> PyList(<<UNIT>>),
      RA_over_RB |-> PyList(<<>>)],
     [RA |-> PyList(<<>>), DA |-> PyList(<<2>>), PA |-> PyList(<<UNIT>>),
      RB |-> PyList(<<100>>), DB |-> PyList(<<1>>), PB |-> PyList(<<UNIT>>),
      RA_over_RB |-> PyList(<<UNIT>>)]}

Init ==
    /\ args \in LoopArgs
    /\ all_possible_designs = DARCDesignGenerator_init(args).D
    /\ max_trials \in 0..MaxTrials
    /\ NO_REPEATS \in BOOLEAN
    /\ random_choice_dimension \in {None, "DB"}
    /\ theta \in UNION {sample_from_prior(n) : n \in 1..MaxParticles}
    /\ data = <<>>
    /\ pc = "AwaitingDesign"
    /\ response = None
    /\ call = NoCall
    /\ stages = NoStages
    /\ out = None
    /\ issued = 0

Next == GetNextDesign \/ SupplyResponse \/ Update

Spec == Init /\ [][Next]_vars

----------------------------------------------------------------------------
(* Claims about the trial loop (Spec, FairSpec) *)

GetNextDesignReturned == call.op = "get_next_design"

\* C1 as stated: get_next_design returns None if and only if the trial index
\* is >= max_trials; for every trial index < max_trials it runs the filter
\* pipeline and the optimiser and returns a design, and it runs neither once
\* the budget is reached.
C1_Original ==
    GetNextDesignReturned =>
        /\ call.result = "None" <=> call.trial >= max_trials
        /\ call.trial < max_trials =>
               (call.ran_refine /\ call.ran_optimiser /\ call.result = "design")
        /\ call.trial >= max_trials => (~call.ran_refine /\ ~call.ran_optimiser)

\* C2 as stated: a run in which every issued design receives a valid response
\* reaches Terminated having issued exactly max_trials designs and recorded
\* exactly max_trials trials, and from then on a request for a design returns
\* None; so only an invalid response stops a run short of Terminated.
C2_Original ==
    /\ pc = "Failed" => (call.op = "update_beliefs" /\ response.val \notin {0, 1})
    /\ pc = "Terminated" =>
           /\ issued = max_trials
           /\ Len(data) = max_trials
           /\ call.op = "get_next_design" /\ call.result = "None"

\* C3 as stated: feeding a response that is neither 0 nor 1 fails with the
\* response-label error, and after the failure the particle population and
\* the trial history are what they were before the response was fed.
C3_Original ==
    [][(pc = "Updating" /\ response.val \notin {0, 1}) =>
           /\ pc' = "Failed"
           /\ call'.error = "ValueError"
           /\ theta' = theta
           /\ data' = data]_vars

HistoryDesigns == {DesignOf(data[t]) : t \in DOMAIN data}

\* C9 as stated: with noRepeats enabled, at every trial index (the second
\* trial included) the allowable set refine_design_space returns holds no
\* design that is already in the trial history, and every design of the full
\* space that is not in the history survives the exclusion stage.
C9_Original ==
    (pc = "AwaitingResponse" /\ NO_REPEATS) =>
        /\ \A r \in Range(stages.after_predictability) :
               DesignOf(r) \notin HistoryDesigns
        /\ \A r \in Range(all_possible_designs) :
               DesignOf(r) \notin HistoryDesigns =>
                   \E q \in Range(stages.after_exclusion) : DesignOf(q) = DesignOf(r)

\* C13 as stated: when the design space has zero rows, or the working set
\* becomes empty after any pipeline stage, every later stage still runs
\* without raising, refine_design_space returns an empty allowable set, and
\* get_next_design yields a 'no design' result instead of an exception, with
\* and without the variety heuristic and noRepeats.
C13_Original ==
    (/\ GetNextDesignReturned
     /\ call.ran_refine
     /\ \/ stages.after_exclusion = <<>>
        \/ stages.after_variety = <<>>
        \/ stages.after_predictability = <<>>) =>
        /\ call.error = "ok"
        /\ call.result = "None"
        /\ call.ran_optimiser
        /\ stages.after_predictability = <<>>

\* the rows of a working set: label and design
StageRows(D) == {<<D[i].idx, DesignOf(D[i])>> : i \in DOMAIN D}

\* C17: the stages run in the order exclusion -> variety -> predictability
\* (each works on what the one before left: the predictability stage's output
\* is drawn from the variety stage's output, that from the exclusion stage's
\* output, that from the full space), and when the variety heuristic is
\* enabled on a non-empty set the value it fixes occurs among the designs
\* left by the exclusion stage and its output is exactly the rows of that set
\* with that value of the dimension: non-empty and sharing a single value.
C17_StageOrderAndVariety ==
    (GetNextDesignReturned /\ call.ran_refine) =>
        /\ StageRows(stages.after_predictability) \subseteq StageRows(stages.after_variety)
        /\ StageRows(stages.after_variety) \subseteq StageRows(stages.after_exclusion)
        /\ \A r \in Range(stages.after_exclusion) :
               \E q \in Range(all_possible_designs) : DesignOf(q) = DesignOf(r)
        /\ random_choice_dimension = None =>
               stages.after_variety = stages.after_exclusion
        /\ (random_choice_dimension # None /\ stages.after_exclusion # <<>>) =>
               \E v \in {r[random_choice_dimension] :
                             r \in Range(stages.after_exclusion)} :
                   /\ stages.after_variety # <<>>
                   /\ \A r \in Range(stages.after_variety) :
                          r[random_choice_dimension] = v
                   /\ StageRows(stages.after_variety) =
                          {<<r.idx, DesignOf(r)>> :
                               r \in {q \in Range(stages.after_exclusion) :
                                          q[random_choice_dimension] = v}}

C17_Witness ==
    /\ GetNextDesignReturned
    /\ call.result = "design"
    /\ random_choice_dimension = "DB"
    /\ NO_REPEATS
    /\ call.trial > 1
    /\ Len(stages.after_exclusion) < Len(all_possible_designs)
    /\ stages.after_variety # <<>>
    /\ Len(stages.after_variety) < Len(stages.after_exclusion)

\* C16: the full design space is read-only after generation: across any
\* sequence of get_next_design / refine_design_space calls, with any
\* combination of noRepeats and the variety heuristic, all_possible_designs
\* keeps the rows and the columns generation gave it; the p_chose_B,
\* highly_predictable and badness annotations and the row removals reach
\* only the working copy of the trial.
C16_DesignSpaceReadOnly ==
    [][/\ all_possible_designs' = all_possible_designs
       /\ \A i \in DOMAIN all_possible_designs' :
              DOMAIN all_possible_designs'[i] = DesignColumns \cup {"idx"}]_vars

C16_Witness ==
    /\ GetNextDesignReturned
    /\ call.result = "design"
    /\ call.trial >= 1
    /\ random_choice_dimension = None
    /\ ~NO_REPEATS
    /\ Len(stages.after_predictability) < Len(all_possible_designs)
    /\ \E r \in Range(stages.after_predictability) :
           "p_chose_B" \in DOMAIN r /\ "highly_predictable" \in DOMAIN r

============================================================================
